---- MODULE Spec2Model ----
(***************************************************************************)
(* Model of tb_dash.py: the WHO tuberculosis dashboard.                    *)
(*                                                                         *)
(* The Dataset Table (df) is read once from a CSV file, the Feature        *)
(* Catalog (feature_labels) is a literal dictionary, the UI Shell is one   *)
(* dropdown wired by a Dash callback to update_world_map, which filters    *)
(* the table to the years holding data for the selected feature, computes  *)
(* the colour range and calls plot_world_map.                              *)
(*                                                                         *)
(* Numbers: a missing cell (NaN) is the sentinel -1, case counts are       *)
(* naturals, and the colour range is kept in hundredths (QDen) so that the *)
(* linear interpolation of Series.quantile(0.99) is exact integer          *)
(* arithmetic.                                                             *)
(***************************************************************************)
EXTENDS Integers, Sequences, FiniteSets, TLC

\* ------------------------------------------------------------------ bounds
\* Largest number of rows of the CSV file.
MaxRows == 3
\* Largest case count of a cell of c_newinc (cells hold 0..MaxVal or NaN).
MaxVal == 1
\* Largest number of rows of the file in the specification with fairness.
LiveRows == 1

\* --------------------------------------------------------------- constants
\* quantile(0.99) is QNum / QDen.
QNum == 99
QDen == 100
\* vmin = 0
VMin == 0

\* A missing cell of the CSV file (pandas NaN).
NaN == -1
\* Python's None as the value of a cleared dropdown.
None == "None"
\* An optional number is a sequence of at most one number: Python's None
\* where a number may stand (vmin=None, vmax=None, range_color=None) is <<>>.
NoNumber == <<>>
Some(x) == <<x>>

\* ------------------------------------------------------- Feature Catalog
\* feature_labels, abridged to two of its seventeen entries.
feature_labels ==
    [c \in {"c_newinc", "c_per_100k"} |->
        IF c = "c_newinc" THEN "New Cases Reported"
                          ELSE "Cases per 100k Population"]

Catalog == DOMAIN feature_labels

\* options=[{"label": label, "value": col} for col, label in feature_labels.items()]
DropdownOptions == {[label |-> feature_labels[col], value |-> col] : col \in Catalog}

OptionValues == {o.value : o \in DropdownOptions}

\* value="c_newinc"
DefaultValue == "c_newinc"

\* ---------------------------------------------------------- Dataset Table
\* The i-th row of the file is the row of country i mod 2 in year
\* (i-1) div 2: a two-country panel ordered by year.
RowCountry(i) == IF i % 2 = 1 THEN "Afghanistan" ELSE "Albania"
RowIso3(i) == IF i % 2 = 1 THEN "AFG" ELSE "ALB"
RowYear(i) == 2010 + ((i - 1) \div 2)

\* Cells of c_newinc: missing or a count.
IncCells == {NaN} \cup (0 .. MaxVal)
\* Cells of c_per_100k: missing or present.
PerCells == {NaN, 0}

\* A table with every catalogued column.
FullTables ==
    UNION {
      { [columns |-> {"country", "iso3", "year", "c_newinc", "c_per_100k"},
         rows |-> [i \in 1 .. n |->
                     [country |-> RowCountry(i), iso3 |-> RowIso3(i),
                      year |-> RowYear(i),
                      c_newinc |-> inc[i], c_per_100k |-> per[i]]]]
        : inc \in [1 .. n -> IncCells], per \in [1 .. n -> PerCells] }
      : n \in 1 .. MaxRows }

\* A table whose file lacks the column c_per_100k.
DefectiveTables ==
    UNION {
      { [columns |-> {"country", "iso3", "year", "c_newinc"},
         rows |-> [i \in 1 .. n |->
                     [country |-> RowCountry(i), iso3 |-> RowIso3(i),
                      year |-> RowYear(i), c_newinc |-> inc[i]]]]
        : inc \in [1 .. n -> IncCells] }
      : n \in 1 .. MaxRows }

\* df = pd.read_csv("data/who_tb_data_agg.csv")
DatasetTables == FullTables \cup DefectiveTables

\* ----------------------------------------------------------------- pandas
\* x.notna()
notna(v) == v # NaN

\* The years of the table, as groupby("year") finds them.
Years(d) == {d.rows[i].year : i \in 1 .. Len(d.rows)}

\* df.groupby("year")[f].apply(lambda x: x.notna().any()), then
\* valid_years[valid_years].index: the years with a non-missing value.
ValidYears_all(d, f) ==
    {y \in Years(d) :
        \A i \in 1 .. Len(d.rows) : d.rows[i].year = y => notna(d.rows[i][f])}

ValidYears(d, f) ==
    {y \in Years(d) :
        \E i \in 1 .. Len(d.rows) : d.rows[i].year = y /\ notna(d.rows[i][f])}

\* df[df["year"].isin(years)]
FilteredDf_notna(d, f, years) ==
    LET keep(r) == notna(r[f]) IN SelectSeq(d.rows, keep)

FilteredDf(d, f, years) ==
    LET keep(r) == r.year \in years IN SelectSeq(d.rows, keep)

\* filtered_df[f].dropna()
DropNa(rows, f) ==
    LET keep(r) == notna(r[f])
        kept == SelectSeq(rows, keep)
    IN [i \in 1 .. Len(kept) |-> kept[i][f]]

\* Insertion of v into an ascending sequence.
RECURSIVE Insert(_, _)
Insert(s, v) ==
    IF s = <<>> THEN <<v>>
    ELSE IF v <= Head(s) THEN <<v>> \o s
         ELSE <<Head(s)>> \o Insert(Tail(s), v)

RECURSIVE Sorted(_)
Sorted(s) == IF s = <<>> THEN <<>> ELSE Insert(Sorted(Tail(s)), Head(s))

\* Series.quantile(0.99), linear interpolation, in hundredths: with the n
\* values ascending and h = 0.99 (n - 1), the value at h interpolated
\* between its two neighbours.
Quantile(s) ==
    LET a == Sorted(s)
        n == Len(a)
        h == QNum * (n - 1)
        lo == (h \div QDen) + 1
        hi == IF lo < n THEN lo + 1 ELSE n
    IN IF n = 0 THEN NaN
       ELSE QDen * a[lo] + (h % QDen) * (a[hi] - a[lo])

\* ----------------------------------------------------------------- figures
\* The Graph before any callback has returned.
EmptyFigure ==
    [chart |-> "empty", data |-> <<>>, locations |-> None, color |-> None,
     hover_name |-> None, animation_frame |-> None, title |-> <<>>,
     range_color |-> <<>>, colorbar_title |-> None]

\* px.scatter(title="No data available for selected feature."): a title and
\* no map geometry.
NoDataFigure ==
    [chart |-> "scatter", data |-> <<>>, locations |-> None, color |-> None,
     hover_name |-> None, animation_frame |-> None,
     title |-> <<"No data available for selected feature.">>,
     range_color |-> <<>>, colorbar_title |-> None]

\* range_color=(vmin, vmax) if vmin is not None and vmax is not None else None
RangeColor_truthy(vmin, vmax) ==
    IF vmin # NoNumber /\ vmax # NoNumber /\ vmin[1] # 0 /\ vmax[1] # 0
    THEN <<vmin[1], vmax[1]>> ELSE <<>>

RangeColor(vmin, vmax) ==
    IF vmin # NoNumber /\ vmax # NoNumber THEN <<vmin[1], vmax[1]>> ELSE <<>>

\* plot_world_map: px.choropleth and the layout's data-dependent parts.
plot_world_map(data, locations, color, hover_name, animation_frame, title, colorbar_title, vmin, vmax) ==
    [chart |-> "choropleth", data |-> data, locations |-> locations,
     color |-> color, hover_name |-> hover_name,
     animation_frame |-> animation_frame, title |-> title,
     range_color |-> RangeColor(vmin, vmax), colorbar_title |-> colorbar_title]

\* --------------------------------------------------------- update_world_map
\* What one invocation did: whether it returned or raised and at which
\* line, the lines it completed, the Filtered View and the series handed
\* to quantile (when it got that far), and the figure returned.
Raised(line, done, fdf, qcalls) ==
    [kind |-> "raised", raised_at |-> line, done |-> done,
     filtered_df |-> fdf, quantile_calls |-> qcalls, figure |-> EmptyFigure]

Returned(done, fdf, qcalls, fig) ==
    [kind |-> "returned", raised_at |-> 0, done |-> done,
     filtered_df |-> fdf, quantile_calls |-> qcalls, figure |-> fig]

update_world_map(d, selected_feature) ==
    IF selected_feature \notin d.columns
    THEN \* df.groupby("year")[selected_feature]: KeyError
         Raised(120, {}, <<>>, <<>>)
    ELSE
      LET valid_years == ValidYears(d, selected_feature)
          filtered_df == FilteredDf(d, selected_feature, valid_years)
      IN IF Len(filtered_df) = 0
         THEN Returned({119, 123, 125}, filtered_df, <<>>, NoDataFigure)
         ELSE
           LET series == DropNa(filtered_df, selected_feature)
               vmin == Some(QDen * VMin)
               vmax == Some(Quantile(series))
           IN IF selected_feature \notin DOMAIN feature_labels
              THEN \* feature_labels[selected_feature]: KeyError
                   Raised(130, {119, 123, 125, 128, 129}, filtered_df, <<series>>)
              ELSE
                LET readable_title == feature_labels[selected_feature]
                IN Returned({119, 123, 125, 128, 129, 130, 132}, filtered_df,
                            <<series>>,
                            plot_world_map(filtered_df, "iso3", selected_feature,
                                "country", "year",
                                <<"Global TB Map for ", readable_title>>,
                                readable_title, vmin, vmax))

\* filtered_df is a local name: the global df is not rebound by line 123.
DfAfterFilter_rebind(d, filtered_df) == [d EXCEPT !.rows = filtered_df]

DfAfterFilter(d, filtered_df) == d

\* -------------------------------------------------------------------- state
VARIABLES
    phase,      \* "loaded": the module is imported; "serving": app.run
    df,         \* the global Dataset Table
    value,      \* the value property of feature-dropdown
    ui,         \* "Idle", or "Computing" while dcc.Loading shows its spinner
    request,    \* the callback request in flight: <<>> or <<[feature, origin]>>
    last,       \* the latest invocation of update_world_map and what it did
    figure,     \* the figure property of world-map
    memo        \* per feature, what its first and its latest repeated invocation did

vars == <<phase, df, value, ui, request, last, figure, memo>>

\* What a callback request may carry: an option of the dropdown, the value
\* of a cleared dropdown, or whatever a client posts to the callback
\* endpoint (here the name of a column that is no catalogue key).
PostedValues == {"year"}
Features == OptionValues \cup {None} \cup PostedValues
\* The selections whose outcomes are remembered: the dropdown's options.
Remembered == OptionValues

\* Lines 8-112: the table is read, the catalogue and the layout are built.
Init ==
    /\ phase = "loaded"
    /\ df \in DatasetTables
    /\ value = DefaultValue
    /\ ui = "Idle"
    /\ request = <<>>
    /\ last = <<>>
    /\ figure = EmptyFigure
    /\ memo = [f \in Remembered |-> <<>>]

Submit(f, origin) == <<[feature |-> f, origin |-> origin]>>

\* Lines 145-146, app.run: the page is served and Dash fires the callback
\* once with the dropdown's initial value.
Run ==
    /\ phase = "loaded"
    /\ phase' = "serving"
    /\ ui' = "Computing"
    /\ request' = Submit(value, "page")
    /\ UNCHANGED <<df, value, last, figure, memo>>

\* The user picks another option of feature-dropdown.
SelectFeature(f) ==
    /\ phase = "serving" /\ ui = "Idle" /\ request = <<>>
    /\ f \in OptionValues /\ f # value
    /\ value' = f
    /\ ui' = "Computing"
    /\ request' = Submit(f, "page")
    /\ UNCHANGED <<phase, df, last, figure, memo>>

\* The user clears feature-dropdown (no clearable=False is given, and a
\* Dropdown is clearable unless told otherwise): its value becomes None.
ClearDropdown ==
    /\ phase = "serving" /\ ui = "Idle" /\ request = <<>>
    /\ value # None
    /\ value' = None
    /\ ui' = "Computing"
    /\ request' = Submit(None, "page")
    /\ UNCHANGED <<phase, df, last, figure, memo>>

\* The user reloads the page: the layout is built anew and the callback
\* fires with the initial value.
ReloadPage ==
    /\ phase = "serving" /\ ui = "Idle" /\ request = <<>>
    /\ value' = DefaultValue
    /\ figure' = EmptyFigure
    /\ ui' = "Computing"
    /\ request' = Submit(DefaultValue, "page")
    /\ UNCHANGED <<phase, df, last, memo>>

\* A client posts a value of its own to the callback endpoint.
DirectRequest(f) ==
    /\ phase = "serving" /\ request = <<>>
    /\ f \in PostedValues
    /\ request' = Submit(f, "client")
    /\ UNCHANGED <<phase, df, value, ui, last, figure, memo>>

\* dcc.Loading: the spinner goes when the callback's response arrives.
UiAfterCallback_stuck(outcome) ==
    IF outcome.figure.chart = "scatter" THEN "Computing" ELSE "Idle"

UiAfterCallback(outcome) == "Idle"

\* Output("world-map", "figure"): a returned figure replaces the one shown;
\* a raised exception is answered with an error and leaves it.
FigureAfterCallback(outcome, shown) ==
    IF outcome.kind = "returned" THEN outcome.figure ELSE shown

Remember(m, f, outcome) ==
    IF f \in Remembered
    THEN [m EXCEPT ![f] = IF @ = <<>> THEN <<outcome>> ELSE <<@[1], outcome>>]
    ELSE m

\* The callback: update_world_map(selected_feature) runs on the request in
\* flight and its result goes back to whoever asked.
Callback ==
    /\ phase = "serving" /\ request # <<>>
    /\ LET selected_feature == request[1].feature
           outcome == update_world_map(df, selected_feature)
       IN /\ df' = IF 123 \in outcome.done
                   THEN DfAfterFilter(df, outcome.filtered_df) ELSE df
          /\ last' = <<[feature |-> selected_feature, outcome |-> outcome]>>
          /\ memo' = Remember(memo, selected_feature, outcome)
          /\ IF request[1].origin = "page"
             THEN /\ ui' = UiAfterCallback(outcome)
                  /\ figure' = FigureAfterCallback(outcome, figure)
             ELSE UNCHANGED <<ui, figure>>
    /\ request' = <<>>
    /\ UNCHANGED <<phase, value>>

Next ==
    \/ Run
    \/ \E f \in OptionValues : SelectFeature(f)
    \/ ClearDropdown
    \/ ReloadPage
    \/ \E f \in PostedValues : DirectRequest(f)
    \/ Callback

Spec == Init /\ [][Next]_vars

\* Every request is answered: update_world_map is straight-line code over
\* a table of fixed size, and the server answers each request it receives.
LiveInit == Init /\ Len(df.rows) <= LiveRows

FairSpec == LiveInit /\ [][Next]_vars /\ WF_vars(Callback)

\* ------------------------------------------------------------------ claims
\* The latest invocation, when there is one.
Invoked == last # <<>>
LastFeature == last[1].feature
LastOutcome == last[1].outcome

\* The rows of a sequence of rows, as a set.
RowSet(rows) == {rows[i] : i \in 1 .. Len(rows)}

\* The rows of the table holding a value of feature f.
RowsWithValue(d, f) == {r \in RowSet(d.rows) : r[f] # NaN}

\* Year y holds a value of feature f in some row of the table.
YearHasData(d, f, y) == \E r \in RowSet(d.rows) : r.year = y /\ r[f] # NaN

\* The k-th smallest of the values of f among the rows (positions) idx of
\* rows, by rank: fewer than k values lie below it and at least k do not
\* lie above it.
OrderStatistic(rows, f, idx, k) ==
    CHOOSE v \in {rows[i][f] : i \in idx} :
        /\ Cardinality({i \in idx : rows[i][f] < v}) < k
        /\ Cardinality({i \in idx : rows[i][f] <= v}) >= k

\* The 99th percentile, in hundredths, of the non-missing values of f in
\* rows: the point 0.99 (n - 1) of the way through the n ranked values.
Percentile99(rows, f) ==
    LET idx == {i \in 1 .. Len(rows) : rows[i][f] # NaN}
        n == Cardinality(idx)
        below == ((99 * (n - 1)) \div 100) + 1
        above == IF below = n THEN n ELSE below + 1
        frac == (99 * (n - 1)) % 100
    IN (100 - frac) * OrderStatistic(rows, f, idx, below)
       + frac * OrderStatistic(rows, f, idx, above)

\* C1: for a catalogue feature that is a column of the table, the
\* invocation returns the no-data figure exactly when no row of the whole
\* table holds a value of the feature, and quantile is never handed an
\* empty series.
C1_NoDataIffAllMissing ==
    (Invoked /\ LastFeature \in Catalog /\ LastFeature \in df.columns) =>
        /\ LastOutcome.kind = "returned"
        /\ (LastOutcome.figure = NoDataFigure)
               <=> (RowsWithValue(df, LastFeature) = {})
        /\ \A k \in DOMAIN LastOutcome.quantile_calls :
               Len(LastOutcome.quantile_calls[k]) > 0

\* C1 witness: a table with rows and with data for another feature, and the
\* selected catalogue feature missing in every row: the no-data figure.
C1_Witness ==
    /\ Invoked /\ LastFeature = "c_newinc"
    /\ Len(df.rows) > 1
    /\ "c_per_100k" \in df.columns /\ RowsWithValue(df, "c_per_100k") # {}
    /\ LastOutcome.figure = NoDataFigure

\* C2: whenever the Filtered View is built, it holds exactly the rows of
\* the table whose year has a value of the selected feature in some row,
\* each once.
C2_FilteredViewIsValidYears ==
    (Invoked /\ 123 \in LastOutcome.done) =>
        /\ RowSet(LastOutcome.filtered_df)
              = {r \in RowSet(df.rows) : YearHasData(df, LastFeature, r.year)}
        /\ Cardinality(RowSet(LastOutcome.filtered_df))
              = Len(LastOutcome.filtered_df)

\* C2 witness: the view keeps a row whose own value is missing (its year
\* has data in another row) and leaves out a row of a year without data.
C2_Witness ==
    /\ Invoked /\ LastFeature \in Catalog /\ 123 \in LastOutcome.done
    /\ \E r \in RowSet(LastOutcome.filtered_df) : r[LastFeature] = NaN
    /\ \E r \in RowSet(df.rows) : r \notin RowSet(LastOutcome.filtered_df)

\* C3: a returned figure other than the no-data figure is a choropleth
\* whose colour range is (0, the 99th percentile of the non-missing values
\* of the selected feature in the Filtered View); with one non-missing
\* value in the table the range is (0, that value).
C3_RangeIsZeroToPercentile99 ==
    (Invoked /\ LastOutcome.kind = "returned"
             /\ LastOutcome.figure # NoDataFigure) =>
        /\ LastOutcome.figure.chart = "choropleth"
        /\ LastOutcome.figure.data = LastOutcome.filtered_df
        /\ LastOutcome.figure.range_color
              = <<0, Percentile99(LastOutcome.filtered_df, LastFeature)>>
        /\ \A r \in RowSet(df.rows) :
              RowsWithValue(df, LastFeature) = {r} =>
                LastOutcome.figure.range_color = <<0, 100 * r[LastFeature]>>

\* C3 witness: a map over two different values, whose percentile lies
\* strictly between them.
C3_Witness ==
    /\ Invoked /\ LastOutcome.kind = "returned"
    /\ LastOutcome.figure.chart = "choropleth"
    /\ \E r1, r2 \in RowSet(LastOutcome.filtered_df) :
          /\ r1[LastFeature] # NaN /\ r2[LastFeature] # NaN
          /\ r1[LastFeature] < r2[LastFeature]
          /\ LastOutcome.figure.range_color[2] > 100 * r1[LastFeature]
          /\ LastOutcome.figure.range_color[2] < 100 * r2[LastFeature]

\* C4: an invocation with a feature that is no catalogue key raises before
\* the valid-years computation: it completes no line, builds no Filtered
\* View and returns no figure.
C4_UnregisteredRejectedBeforeStep1 ==
    (Invoked /\ LastFeature \notin Catalog) =>
        /\ LastOutcome.kind = "raised"
        /\ LastOutcome.done = {}
        /\ LastOutcome.filtered_df = <<>>
        /\ LastOutcome.quantile_calls = <<>>

\* C5: the dashboard serves only with a table that has every catalogue key
\* as a column, and no invocation for a catalogue key fails on a missing
\* column.
C5_CatalogDefectFatalAtStartup ==
    /\ phase = "serving" => Catalog \subseteq df.columns
    /\ (Invoked /\ LastFeature \in Catalog) => LastOutcome.raised_at # 120

\* C6: the dropdown's options are the catalogue keys, its value is always a
\* catalogue key, and so is the feature of every request the page submits.
C6_SubmittedValueInCatalog ==
    /\ OptionValues = Catalog
    /\ value \in Catalog
    /\ \A k \in DOMAIN request :
          request[k].origin = "page" => request[k].feature \in Catalog

\* C7: no step changes the Dataset Table.
C7_TableNeverMutated == [][df' = df]_vars

\* C7 witness: both the map path and the no-data path have been taken.
C7_Witness ==
    \E f, g \in Remembered :
        /\ memo[f] # <<>> /\ memo[f][1].figure.chart = "choropleth"
        /\ memo[g] # <<>> /\ memo[g][1].figure = NoDataFigure

\* C8: an invocation for a feature invoked before does exactly what the
\* first invocation for that feature did.
C8_SameFeatureSameRequest ==
    \A f \in Remembered : Len(memo[f]) = 2 => memo[f][2] = memo[f][1]

\* C8 witness: a feature is invoked again, with a feature of another
\* outcome invoked before it.
C8_Witness ==
    \E f, g \in Remembered :
        /\ Invoked /\ LastFeature = f /\ Len(memo[f]) = 2
        /\ memo[g] # <<>> /\ memo[g][1].filtered_df # memo[f][1].filtered_df
        /\ memo[f][1].figure.chart = "choropleth"

====
